---- MODULE Spec2Model ----
(***************************************************************************)
(* chrompoly: an interactive graph editor (main thread, src/chrompoly.c    *)
(* main) and a background worker (src/chrompoly.c calculate) that          *)
(* recomputes the chromatic polynomial of the edited graph with the        *)
(* contraction-lattice pipeline of src/submap.c.                           *)
(*                                                                         *)
(* Indices are the C ones (0-based); a TLA+ sequence s holds the C         *)
(* element k at s[k + 1].                                                  *)
(***************************************************************************)
EXTENDS Integers, Sequences, FiniteSets, TLC

(***************************************************************************)
(* Bounds of the model.                                                    *)
(***************************************************************************)
\* Capacity of the editor's nodes array (deleted-but-animating nodes count).
MaxNodes == 3
\* Longest edge list of a graph drawn for the pipeline alone.
MaxEdges == 3
\* Editor mutations (each sets graph_changed once) while the worker runs.
MaxEdits == 4
\* Editor mutations of the editor taken alone.
MaxEditsAlone == 5
\* Frames a deleted node stays in the nodes array (the source plays
\* DISAPPEAR_ANIMATION_FRAMES = 30 frames; only "still in the array or
\* not" matters to the graph).
AnimationFrames == 4
\* Largest number of colours the colouring count is compared at.
MaxColours == 3

(***************************************************************************)
(* Values.                                                                 *)
(***************************************************************************)
\* The content of memory malloc returned and nobody wrote (matrix_init), as
\* read by get_mobius_of_column: some int the program does not control.
Indeterminate == -1000000

IsDet(x) == x # Indeterminate

\* C int arithmetic on values that may be indeterminate: 0 * x is 0 for
\* every int x, anything else computed from an indeterminate value is
\* indeterminate.
Mul(a, b) ==
  IF a = 0 \/ b = 0 THEN 0
  ELSE IF IsDet(a) /\ IsDet(b) THEN a * b ELSE Indeterminate

Add(a, b) == IF IsDet(a) /\ IsDet(b) THEN a + b ELSE Indeterminate

Neg(a) == IF IsDet(a) THEN 0 - a ELSE Indeterminate

Min2(a, b) == IF a < b THEN a ELSE b
Max2(a, b) == IF a < b THEN b ELSE a

Edge(s, e) == [start_idx |-> s, end_idx |-> e]

Submap(vs, es) == [vertices |-> vs, edges |-> es]

\* src/chrompoly.c Node, without the fields that only drive the rendering.
Node(deleted, timer) ==
  [deleted |-> deleted, disappear_animation_timer |-> timer]

(***************************************************************************)
(* src/submap.c: equality of blocks, edges and submaps (array_eq).         *)
(***************************************************************************)
int_eq(a, b) == a = b

\* array_eq(&v1, &v2, int_eq): same size and equal element by element.
vertex_eq(v1, v2) ==
  /\ Len(v1) = Len(v2)
  /\ \A k \in 1..Len(v1) : int_eq(v1[k], v2[k])

edge_eq(e1, e2) ==
  e1.start_idx = e2.start_idx /\ e1.end_idx = e2.end_idx

submap_eq(s1, s2) ==
  /\ Len(s1.vertices) = Len(s2.vertices)
  /\ \A k \in 1..Len(s1.vertices) : vertex_eq(s1.vertices[k], s2.vertices[k])
  /\ Len(s1.edges) = Len(s2.edges)
  /\ \A k \in 1..Len(s1.edges) : edge_eq(s1.edges[k], s2.edges[k])

(***************************************************************************)
(* qsort(identified.elems, ..., cmp): ascending order.                     *)
(***************************************************************************)
RECURSIVE Insert(_, _)
Insert(x, s) ==
  IF s = <<>> THEN <<x>>
  ELSE IF x <= Head(s) THEN <<x>> \o s
  ELSE <<Head(s)>> \o Insert(x, Tail(s))

\* The concatenation left as it is.
unsorted(s) == s

RECURSIVE qsort(_)
qsort(s) == IF s = <<>> THEN <<>> ELSE Insert(Head(s), qsort(Tail(s)))

(***************************************************************************)
(* src/submap.c get_direct_submaps: one child per edge of the submap.      *)
(***************************************************************************)
\* array_at(&submap->vertices, k).  A k past the end reads memory of the
\* elems buffer (capacity 8) that array_add never wrote; the model gives
\* that read the all-zero Vertex (size 0), and ReadsOutOfBounds marks it.
VertexAt(submap, k) ==
  IF k >= 0 /\ k < Len(submap.vertices) THEN submap.vertices[k + 1] ELSE <<>>

\* The child's blocks without the "else if (k == j) continue" of line 82:
\* block j is copied like any other.
RECURSIVE ContractVerticesKeepingJ(_, _, _, _)
ContractVerticesKeepingJ(submap, i, j, k) ==
  IF k >= Len(submap.vertices) THEN <<>>
  ELSE IF k = i
    THEN <<qsort(VertexAt(submap, i) \o VertexAt(submap, j))>>
           \o ContractVerticesKeepingJ(submap, i, j, k + 1)
  ELSE <<VertexAt(submap, k)>> \o ContractVerticesKeepingJ(submap, i, j, k + 1)

\* The child's blocks with the union put at position j and block i
\* skipped.
RECURSIVE ContractVerticesAtJ(_, _, _, _)
ContractVerticesAtJ(submap, i, j, k) ==
  IF k >= Len(submap.vertices) THEN <<>>
  ELSE IF k = j
    THEN <<qsort(VertexAt(submap, i) \o VertexAt(submap, j))>>
           \o ContractVerticesAtJ(submap, i, j, k + 1)
  ELSE IF k = i THEN ContractVerticesAtJ(submap, i, j, k + 1)
  ELSE <<VertexAt(submap, k)>> \o ContractVerticesAtJ(submap, i, j, k + 1)

\* The child's blocks when the edge (i, j), i <= j, is contracted
\* (lines 69-92): block i becomes the sorted union, block j is skipped.
RECURSIVE ContractVertices(_, _, _, _)
ContractVertices(submap, i, j, k) ==
  IF k >= Len(submap.vertices) THEN <<>>
  ELSE IF k = i
    THEN <<qsort(VertexAt(submap, i) \o VertexAt(submap, j))>>
           \o ContractVertices(submap, i, j, k + 1)
  ELSE IF k = j THEN ContractVertices(submap, i, j, k + 1)
  ELSE <<VertexAt(submap, k)>> \o ContractVertices(submap, i, j, k + 1)

\* The edge _edge of the parent in the child (lines 97-121): <<>> when it
\* is dropped, <<edge>> otherwise.
RemapEdge(_edge, i, j) ==
  LET k == _edge.start_idx
      l == _edge.end_idx
      l1 == IF l > j THEN l - 1 ELSE l
      k1 == IF k > j THEN k - 1 ELSE k
  IN IF (k = i /\ l = j) \/ (k = j /\ l = i) THEN <<>>
     ELSE IF k = i \/ k = j
       THEN <<IF l1 < i THEN Edge(l1, i) ELSE Edge(i, l1)>>
     ELSE IF l = i \/ l = j
       THEN <<IF k1 < i THEN Edge(k1, i) ELSE Edge(i, k1)>>
     ELSE <<IF k1 < l1 THEN Edge(k1, l1) ELSE Edge(l1, k1)>>

RECURSIVE ContractEdges(_, _, _)
ContractEdges(es, i, j) ==
  IF es = <<>> THEN <<>>
  ELSE RemapEdge(Head(es), i, j) \o ContractEdges(Tail(es), i, j)

\* The child made for one edge (lines 59-123).
ContractEdge(submap, edge) ==
  LET i == Min2(edge.start_idx, edge.end_idx)
      j == Max2(edge.start_idx, edge.end_idx)
  IN Submap(ContractVertices(submap, i, j, 0),
            ContractEdges(submap.edges, i, j))

get_direct_submaps(submap) ==
  [e \in 1..Len(submap.edges) |-> ContractEdge(submap, submap.edges[e])]

\* get_direct_submaps reads a block past the end of submap->vertices: an
\* edge whose smaller index is a block and whose larger index is not
\* (line 75, reached when k == i).
ReadsOutOfBounds(submap) ==
  \E e \in 1..Len(submap.edges) :
    LET i == Min2(submap.edges[e].start_idx, submap.edges[e].end_idx)
        j == Max2(submap.edges[e].start_idx, submap.edges[e].end_idx)
    IN i >= 0 /\ i < Len(submap.vertices) /\ j >= Len(submap.vertices)

\* _handle without its membership test of line 143.
never_in_submap_array(submaps, submap) == FALSE

in_submap_array(submaps, submap) ==
  \E k \in 1..Len(submaps) : submap_eq(submaps[k], submap)

\* get_all_submaps without its lines 159-160: the list of the previous
\* cycle stays.
keep_submaps(submaps) == submaps

\* free_submaps(&_all_submaps); array_init(&_all_submaps) (lines 159-160):
\* whatever the list held, it is empty afterwards.
free_submaps(submaps) == <<>>

(***************************************************************************)
(* src/submap.c from_graph: n singleton blocks and a copy of the edges.    *)
(***************************************************************************)
from_graph(n, es) == Submap([i \in 1..n |-> <<i - 1>>], es)

(***************************************************************************)
(* src/submap.c submap_ge and the order matrix.                            *)
(***************************************************************************)
\* array_contains(&v, n, int)
array_contains(v, n) == \E k \in 1..Len(v) : int_eq(v[k], n)

\* Index of the first block containing n, or -1.
_find_node_idx(submap, n) ==
  IF \E k \in 1..Len(submap.vertices) : array_contains(submap.vertices[k], n)
  THEN (CHOOSE k \in 1..Len(submap.vertices) :
          /\ array_contains(submap.vertices[k], n)
          /\ \A m \in 1..(k - 1) : ~array_contains(submap.vertices[m], n)) - 1
  ELSE -1

\* idx taken from the block's own position in s1 instead of from the
\* block of s2 holding its first label.
submap_ge_same_position(s1, s2) ==
  \A b \in 1..Len(s1.vertices) :
    \A k \in 1..Len(s1.vertices[b]) :
      _find_node_idx(s2, s1.vertices[b][k]) = b - 1

\* The comparison made on the number of blocks alone.
submap_ge_by_size(s1, s2) == Len(s1.vertices) >= Len(s2.vertices)

\* Every block of s1 lies within one block of s2 (idx is set by the block's
\* first label, every other label must be found in the same block).
submap_ge(s1, s2) ==
  \A b \in 1..Len(s1.vertices) :
    \A k \in 2..Len(s1.vertices[b]) :
      _find_node_idx(s2, s1.vertices[b][k])
        = _find_node_idx(s2, s1.vertices[b][1])

\* matrix_init(size): size rows of size ints nobody wrote yet.
matrix_init(size) ==
  [size |-> size,
   entries |-> [i \in 1..size |-> [j \in 1..size |-> Indeterminate]]]

\* Row i with the arguments of submap_ge exchanged.
OrderingRowExchanged(submaps, i) ==
  [j1 \in 1..Len(submaps) |->
     IF i <= j1 - 1 /\ submap_ge(submaps[i + 1], submaps[j1]) THEN 1 ELSE 0]

\* Row i when the loop writes entries[j][i]: row i of the transpose.
OrderingRowTransposed(submaps, i) ==
  [j1 \in 1..Len(submaps) |->
     IF j1 - 1 <= i /\ submap_ge(submaps[i + 1], submaps[j1]) THEN 1 ELSE 0]

\* Row i of get_ordering_matrix (lines 236-242), i and j 0-based.
OrderingRow(submaps, i) ==
  [j1 \in 1..Len(submaps) |->
     IF i <= j1 - 1 /\ submap_ge(submaps[j1], submaps[i + 1]) THEN 1 ELSE 0]

(***************************************************************************)
(* src/submap.c get_mobius_of_column and get_chromatic_polynomial.         *)
(***************************************************************************)
RECURSIVE SumProductsShort(_, _, _)
\* The same loop stopping one column early (k < M.size - 1).
SumProductsShort(unknowns, row, k1) ==
  IF k1 >= Len(row) THEN 0
  ELSE Add(Mul(unknowns[k1], row[k1]),
           SumProductsShort(unknowns, row, k1 + 1))

RECURSIVE SumProducts(_, _, _)
\* unknown += unknowns[k] * row[k] for k = 0 .. size-1 (lines 264-266);
\* k1 is the 1-based k.
SumProducts(unknowns, row, k1) ==
  IF k1 > Len(row) THEN 0
  ELSE Add(Mul(unknowns[k1], row[k1]), SumProducts(unknowns, row, k1 + 1))

\* The loop without its j == M.size - 1 case: nothing seeds the
\* recurrence, every unknown stays 0.
MobiusFromUnseeded(M, unknowns, j) == [k \in 1..Len(unknowns) |-> 0]

RECURSIVE MobiusFrom(_, _, _)
\* The loop of lines 259-270 from j down to 0 (j 0-based).
MobiusFrom(M, unknowns, j) ==
  IF j < 0 THEN unknowns
  ELSE LET unknown ==
             IF j = M.size - 1 THEN 1
             ELSE Neg(SumProducts(unknowns, M.entries[j + 1], 1))
       IN MobiusFrom(M,
                     [unknowns EXCEPT ![j + 1] = Add(unknowns[j + 1], unknown)],
                     j - 1)

get_mobius_of_column(M) ==
  MobiusFrom(M, [j \in 1..M.size |-> 0], M.size - 1)

RECURSIVE FoldMobiusShifted(_, _, _, _)
\* The accumulation one position too low: P[size - 2] += mobius[i].
FoldMobiusShifted(P, submaps, mobiuses, i1) ==
  IF i1 > Len(mobiuses) THEN P
  ELSE LET pos == Len(submaps[i1].vertices) - 1
       IN FoldMobiusShifted(
            IF pos \in 1..Len(P)
              THEN [P EXCEPT ![pos] = Add(P[pos], mobiuses[i1])] ELSE P,
            submaps, mobiuses, i1 + 1)

RECURSIVE FoldMobius(_, _, _, _)
\* P[size(submap i) - 1] += mobius[i] for every i (lines 281-284); a
\* position past the end of P is a write outside the array and is left out.
FoldMobius(P, submaps, mobiuses, i1) ==
  IF i1 > Len(mobiuses) THEN P
  ELSE LET pos == Len(submaps[i1].vertices)
       IN FoldMobius(
            IF pos \in 1..Len(P)
              THEN [P EXCEPT ![pos] = Add(P[pos], mobiuses[i1])] ELSE P,
            submaps, mobiuses, i1 + 1)

get_chromatic_polynomial(n, submaps, M) ==
  FoldMobius([i \in 1..n |-> 0], submaps, get_mobius_of_column(M), 1)

(***************************************************************************)
(* State.                                                                  *)
(***************************************************************************)
VARIABLES
  \* src/chrompoly.c, main thread (the editor)
  nodes,                 \* array_node nodes (deleted, the disappear timer)
  edges,                 \* array_edge edges
  selected_idx,          \* main's selected_idx (-1: none)
  edging,                \* main's edging
  pc_e,                  \* where the main thread is in its frame
  \* shared between the threads
  graph_changed,         \* src/submap.c:8
  graph_changed_mutex,   \* holder: "free", "main" or "worker"
  nodes_mutex,           \* holder: "free", "main" or "worker"
  is_running,            \* src/chrompoly.c:147
  \* src/chrompoly.c calculate and src/submap.c (the worker)
  pc_w,                  \* where the worker is in calculate
  n,                     \* calculate's n
  submap,                \* calculate's submap (the result of from_graph)
  stack,                 \* the activations of _handle, outermost first
  _all_submaps,          \* src/submap.c:43 (all_submaps shares its storage)
  stop_flag,             \* src/submap.c:9
  cur_submap_count,      \* src/submap.c:10
  cur_matrix_rows_count, \* src/submap.c:11
  M,                     \* calculate's M
  row,                   \* get_ordering_matrix's i
  chromatic_polynomial,  \* src/chrompoly.c:146
  output,                \* src/chrompoly.c:148, what the text shows
  \* history, read by the properties only
  aborted,               \* a poll of the last pipeline run read the
                         \* signal as set
  flag_sets,             \* times the editor has set graph_changed
  sets_since_cycle,      \* of these, since the worker last started a cycle
  coalesced,             \* of these, taken up by the cycle being started
  graph_trace,           \* graphs the editor held since n was counted
  snapshot_consistent,   \* the last (n, edges) taken was one of graph_trace
  published,             \* "kept": an uncancelled cycle published and the
                         \* worker has not written the result since;
                         \* "lost": it has; "none": nothing to keep
  rerun                  \* this pipeline run is on the snapshot of the
                         \* previous run, which was not cancelled

editor_vars == <<nodes, edges, selected_idx, edging, pc_e>>
shared_vars == <<graph_changed, graph_changed_mutex, nodes_mutex, is_running>>
worker_vars == <<pc_w, n, submap, stack, _all_submaps, stop_flag,
                 cur_submap_count, cur_matrix_rows_count, M, row,
                 chromatic_polynomial, output>>
history_vars == <<aborted, flag_sets, sets_since_cycle, coalesced,
                  graph_trace,
                  snapshot_consistent, published, rerun>>
vars == <<editor_vars, shared_vars, worker_vars, history_vars>>

(***************************************************************************)
(* What the overlay text shows (src/chrompoly.c output, as a value).       *)
(***************************************************************************)
Output(kind, coeffs, count, total) ==
  [kind |-> kind, coeffs |-> coeffs, count |-> count, total |-> total]

set_output_to_loading == Output("loading", <<>>, 0, 0)

set_output_to_polynomial(P) == Output("polynomial", P, 0, 0)

set_output_to_cur_submap_count == Output("found", <<>>, cur_submap_count, 0)

set_output_to_cur_matrix_rows_count ==
  Output("processing", <<>>, cur_matrix_rows_count, Len(_all_submaps))

(***************************************************************************)
(* The graph the editor holds.                                             *)
(***************************************************************************)
active_node_count(ns) == Cardinality({k \in 1..Len(ns) : ~ns[k].deleted})

Graph(cnt, es) == [n |-> cnt, edges |-> es]

\* Well-formed simple graph on 0..cnt-1: endpoints in range, no self-loop,
\* no two edges the same unordered pair.
WellFormed(cnt, es) ==
  /\ \A k \in 1..Len(es) :
       /\ es[k].start_idx \in 0..(cnt - 1)
       /\ es[k].end_idx \in 0..(cnt - 1)
       /\ es[k].start_idx # es[k].end_idx
  /\ \A k, l \in 1..Len(es) :
       k # l => {es[k].start_idx, es[k].end_idx}
                  # {es[l].start_idx, es[l].end_idx}

(***************************************************************************)
(* The worker: src/chrompoly.c calculate, lines 303-333.                   *)
(***************************************************************************)
\* The local WYMatrix M before its first assignment (line 297): its size
\* field holds whatever the stack held.
UninitialisedMatrix == [size |-> Indeterminate, entries |-> <<>>]

\* Lines 303-309: leave the loop when is_running is false; spin while
\* graph_changed is false; otherwise start a cycle by emptying the
\* published polynomial (array_term).
W_Loop ==
  /\ pc_w = "loop"
  /\ IF ~is_running
       THEN /\ pc_w' = "returned"
            /\ UNCHANGED <<chromatic_polynomial, sets_since_cycle, coalesced,
                           published, rerun>>
       ELSE /\ graph_changed
            /\ chromatic_polynomial' = <<>>
            /\ coalesced' = sets_since_cycle
            /\ sets_since_cycle' = 0
            /\ published' = IF published = "kept" THEN "lost" ELSE published
            /\ rerun' = FALSE
            /\ pc_w' = "lock_graph_changed"
  /\ UNCHANGED <<editor_vars, shared_vars, n, submap, stack, _all_submaps,
                 stop_flag, cur_submap_count, cur_matrix_rows_count, M, row,
                 output, aborted, flag_sets, graph_trace,
                 snapshot_consistent>>

\* Line 311: mtx_lock(&graph_changed_mutex).
W_LockGraphChanged ==
  /\ pc_w = "lock_graph_changed"
  /\ graph_changed_mutex = "free"
  /\ graph_changed_mutex' = "worker"
  /\ pc_w' = "clear"
  /\ UNCHANGED <<editor_vars, graph_changed, nodes_mutex, is_running, n,
                 submap, stack, _all_submaps, stop_flag, cur_submap_count,
                 cur_matrix_rows_count, M, row, chromatic_polynomial, output,
                 history_vars>>

\* Lines 311-316 without line 312: the flag stays as it is.
W_ClearKeepsFlag ==
  /\ pc_w = "clear"
  /\ graph_changed_mutex' = "free"
  /\ output' = set_output_to_loading
  /\ coalesced' = 0
  /\ pc_w' = "lock_nodes"
  /\ UNCHANGED <<editor_vars, graph_changed, nodes_mutex, is_running, n,
                 submap, stack, _all_submaps, stop_flag, cur_submap_count,
                 cur_matrix_rows_count, M, row, chromatic_polynomial,
                 aborted, flag_sets, sets_since_cycle, graph_trace,
                 snapshot_consistent, published, rerun>>

\* Lines 312-316 without the mtx_unlock of line 313.
W_ClearKeepsLock ==
  /\ pc_w = "clear"
  /\ graph_changed' = FALSE
  /\ output' = set_output_to_loading
  /\ coalesced' = 0
  /\ pc_w' = "lock_nodes"
  /\ UNCHANGED <<editor_vars, graph_changed_mutex, nodes_mutex, is_running,
                 n, submap, stack, _all_submaps, stop_flag, cur_submap_count,
                 cur_matrix_rows_count, M, row, chromatic_polynomial,
                 aborted, flag_sets, sets_since_cycle, graph_trace,
                 snapshot_consistent, published, rerun>>

\* Lines 312-316: clear the flag, unlock, show "...".
W_Clear ==
  /\ pc_w = "clear"
  /\ graph_changed' = FALSE
  /\ graph_changed_mutex' = "free"
  /\ output' = set_output_to_loading
  /\ coalesced' = 0
  /\ pc_w' = "lock_nodes"
  /\ UNCHANGED <<editor_vars, nodes_mutex, is_running, n, submap, stack,
                 _all_submaps, stop_flag, cur_submap_count,
                 cur_matrix_rows_count, M, row, chromatic_polynomial,
                 aborted, flag_sets, sets_since_cycle, graph_trace,
                 snapshot_consistent, published, rerun>>

\* Line 319: mtx_lock(&nodes_mutex).
W_LockNodes ==
  /\ pc_w = "lock_nodes"
  /\ nodes_mutex = "free"
  /\ nodes_mutex' = "worker"
  /\ pc_w' = "count"
  /\ UNCHANGED <<editor_vars, graph_changed, graph_changed_mutex, is_running,
                 n, submap, stack, _all_submaps, stop_flag, cur_submap_count,
                 cur_matrix_rows_count, M, row, chromatic_polynomial, output,
                 history_vars>>

\* Lines 320-321 without the "if (n == 0) continue" of lines 322-323.
W_CountNoSkip ==
  /\ pc_w = "count"
  /\ n' = active_node_count(nodes)
  /\ nodes_mutex' = "free"
  /\ pc_w' = "from_graph"
  /\ graph_trace' = {Graph(n', edges)}
  /\ UNCHANGED <<editor_vars, graph_changed, graph_changed_mutex, is_running,
                 submap, stack, _all_submaps, stop_flag, cur_submap_count,
                 cur_matrix_rows_count, M, row, chromatic_polynomial, output,
                 aborted, flag_sets, sets_since_cycle, coalesced,
                 snapshot_consistent, published, rerun>>

\* Lines 320-323: count the active nodes, unlock, skip the cycle when there
\* is none.
W_Count ==
  /\ pc_w = "count"
  /\ n' = active_node_count(nodes)
  /\ nodes_mutex' = "free"
  /\ IF n' = 0
       THEN pc_w' = "loop" /\ graph_trace' = {} /\ published' = "none"
       ELSE /\ pc_w' = "from_graph"
            /\ graph_trace' = {Graph(n', edges)}
            /\ published' = published
  /\ UNCHANGED <<editor_vars, graph_changed, graph_changed_mutex, is_running,
                 submap, stack, _all_submaps, stop_flag, cur_submap_count,
                 cur_matrix_rows_count, M, row, chromatic_polynomial, output,
                 aborted, flag_sets, sets_since_cycle, coalesced,
                 snapshot_consistent, rerun>>

\* An activation of _handle that is calling its children: the submap, its
\* direct submaps, and the 1-based position of the next child to visit.
Frame(sub, direct, next) ==
  [submap |-> sub, direct_submaps |-> direct, next |-> next]

\* Line 324 and lines 159-161: copy the edges (read outside nodes_mutex),
\* reset the global list, call _handle on the root.  The call is the
\* outermost frame's only child.
W_FromGraph ==
  /\ pc_w = "from_graph"
  /\ submap' = from_graph(n, edges)
  /\ _all_submaps' = free_submaps(_all_submaps)
  /\ stack' = <<Frame(Submap(<<>>, <<>>), <<submap'>>, 1)>>
  /\ snapshot_consistent' = (Graph(n, edges) \in graph_trace)
  /\ graph_trace' = {}
  /\ rerun' = (~aborted /\ submap' = submap)
  /\ aborted' = FALSE
  /\ pc_w' = "_handle"
  /\ UNCHANGED <<editor_vars, shared_vars, n, stop_flag, cur_submap_count,
                 cur_matrix_rows_count, M, row, chromatic_polynomial, output,
                 flag_sets, sets_since_cycle, coalesced, published>>

\* Returns of _handle (lines 153-155): every activation whose children are
\* all visited counts and appends its submap, then returns to its caller.
\* The same returns with each submap put at the front of the list.
RECURSIVE UnwindToFront(_, _, _)
UnwindToFront(stk, all, count) ==
  LET top == stk[Len(stk)]
  IN IF Len(stk) > 1 /\ top.next > Len(top.direct_submaps)
       THEN UnwindToFront(SubSeq(stk, 1, Len(stk) - 1),
                          <<top.submap>> \o all, count + 1)
       ELSE [stack |-> stk, all |-> all, count |-> count]

RECURSIVE Unwind(_, _, _)
Unwind(stk, all, count) ==
  LET top == stk[Len(stk)]
  IN IF Len(stk) > 1 /\ top.next > Len(top.direct_submaps)
       THEN Unwind(SubSeq(stk, 1, Len(stk) - 1),
                   Append(all, top.submap), count + 1)
       ELSE [stack |-> stk, all |-> all, count |-> count]

\* Once stop_flag is set every later _handle returns at line 139, so each
\* pending activation runs through its loop and still appends its submap.
RECURSIVE AbortUnwind(_, _, _)
AbortUnwind(stk, all, count) ==
  IF Len(stk) > 1
    THEN AbortUnwind(SubSeq(stk, 1, Len(stk) - 1),
                     Append(all, stk[Len(stk)].submap), count + 1)
    ELSE [stack |-> <<[stk[1] EXCEPT
                         !.next = Len(stk[1].direct_submaps) + 1]>>,
          all |-> all, count |-> count]

\* One call of _handle (lines 136-156) on the next child of the innermost
\* activation, with the returns that follow it.
HandleCall(stk, all, count, changed, stop) ==
  LET top == stk[Len(stk)]
      callee == top.direct_submaps[top.next]
      stk1 == [stk EXCEPT ![Len(stk)].next = @ + 1]
  IN IF changed \/ stop
       THEN AbortUnwind(stk1, all, count) @@ [stop |-> TRUE, polled |-> TRUE]
     ELSE IF in_submap_array(all, callee)
       THEN Unwind(stk1, all, count) @@ [stop |-> FALSE, polled |-> FALSE]
     ELSE IF Len(callee.vertices) > 1 /\ Len(callee.edges) > 0
       THEN [stack |-> Append(stk1, Frame(callee,
                                          get_direct_submaps(callee), 1)),
             all |-> all, count |-> count, stop |-> FALSE, polled |-> FALSE]
     ELSE Unwind(stk1, Append(all, callee), count + 1)
            @@ [stop |-> FALSE, polled |-> FALSE]

\* _handle has returned to get_all_submaps.
HandleDone(stk) == Len(stk) = 1 /\ stk[1].next > Len(stk[1].direct_submaps)

\* Lines 136-156, and lines 162-166 after the outermost return.  When the
\* visited submap makes get_direct_submaps read past its blocks, the read
\* either faults or yields the empty block.
W_Handle ==
  /\ pc_w = "_handle"
  /\ LET top == stack[Len(stack)]
         callee == top.direct_submaps[top.next]
         r == HandleCall(stack, _all_submaps, cur_submap_count,
                         graph_changed, stop_flag)
         expands == /\ ~(graph_changed \/ stop_flag)
                    /\ ~in_submap_array(_all_submaps, callee)
     IN \E fault \in (IF expands /\ ReadsOutOfBounds(callee)
                        THEN BOOLEAN ELSE {FALSE}) :
          IF fault
            THEN /\ pc_w' = "crashed"
                 /\ UNCHANGED <<stack, _all_submaps, stop_flag,
                                cur_submap_count, aborted>>
            ELSE /\ _all_submaps' = r.all
                 /\ aborted' = (aborted \/ r.polled)
                 /\ IF HandleDone(r.stack)
                      THEN /\ stack' = <<>>
                           /\ stop_flag' = FALSE
                           /\ cur_submap_count' = 0
                           /\ pc_w' = "matrix"
                      ELSE /\ stack' = r.stack
                           /\ stop_flag' = r.stop
                           /\ cur_submap_count' = r.count
                           /\ pc_w' = "_handle"
  /\ UNCHANGED <<editor_vars, shared_vars, n, submap, cur_matrix_rows_count,
                 M, row, chromatic_polynomial, output, flag_sets,
                 sets_since_cycle, coalesced, graph_trace, snapshot_consistent,
                 published, rerun>>

\* Line 326 and lines 226-227: matrix_free(M) (M.size == 0 returns, any
\* other size frees M.entries: with the first cycle's uninitialised M it
\* frees wild pointers), then matrix_init for the new list.
W_Matrix ==
  /\ pc_w = "matrix"
  /\ \E fault \in (IF M.size = Indeterminate THEN BOOLEAN ELSE {FALSE}) :
       IF fault
         THEN /\ pc_w' = "crashed"
              /\ UNCHANGED <<M, row, cur_matrix_rows_count>>
         ELSE /\ M' = matrix_init(Len(_all_submaps))
              /\ row' = 0
              /\ cur_matrix_rows_count' = 0
              /\ pc_w' = IF Len(_all_submaps) = 0 THEN "publish" ELSE "row"
  /\ UNCHANGED <<editor_vars, shared_vars, n, submap, stack, _all_submaps,
                 stop_flag, cur_submap_count, chromatic_polynomial, output,
                 history_vars>>

\* One turn of the outer loop of get_ordering_matrix (lines 228-243), and
\* line 244 after the last.
W_Row ==
  /\ pc_w = "row"
  /\ IF graph_changed \/ stop_flag
       THEN /\ stop_flag' = FALSE
            /\ cur_submap_count' = 0
            /\ cur_matrix_rows_count' = 0
            /\ aborted' = TRUE
            /\ pc_w' = "publish"
            /\ UNCHANGED <<M, row>>
       ELSE /\ M' = [M EXCEPT !.entries[row + 1] =
                                 OrderingRow(_all_submaps, row)]
            /\ row' = row + 1
            /\ IF row + 1 = M.size
                 THEN cur_matrix_rows_count' = 0 /\ pc_w' = "publish"
                 ELSE /\ cur_matrix_rows_count' = cur_matrix_rows_count + 1
                      /\ pc_w' = "row"
            /\ UNCHANGED <<stop_flag, cur_submap_count, aborted>>
  /\ UNCHANGED <<editor_vars, shared_vars, n, submap, stack, _all_submaps,
                 chromatic_polynomial, output, flag_sets, sets_since_cycle,
                 coalesced,
                 graph_trace, snapshot_consistent, published, rerun>>

\* Lines 329-332: assign the assembled polynomial and render it.
W_Publish ==
  /\ pc_w = "publish"
  /\ chromatic_polynomial' = get_chromatic_polynomial(n, _all_submaps, M)
  /\ output' = set_output_to_polynomial(chromatic_polynomial')
  /\ pc_w' = "loop"
  /\ published' = IF ~aborted THEN "kept"
                  ELSE IF published = "kept" THEN "lost" ELSE published
  /\ UNCHANGED <<editor_vars, shared_vars, n, submap, stack, _all_submaps,
                 stop_flag, cur_submap_count, cur_matrix_rows_count, M, row,
                 aborted, flag_sets, sets_since_cycle, coalesced, graph_trace,
                 snapshot_consistent, rerun>>

(***************************************************************************)
(* The pipeline run in one piece from freshly initialised globals: the     *)
(* same calls, none of them interrupted.                                   *)
(***************************************************************************)
RECURSIVE HandleAll(_, _, _)
HandleAll(stk, all, count) ==
  IF HandleDone(stk) THEN all
  ELSE LET r == HandleCall(stk, all, count, FALSE, FALSE)
       IN HandleAll(r.stack, r.all, r.count)

\* src/submap.c get_all_submaps with graph_changed and stop_flag false.
get_all_submaps(sub) ==
  HandleAll(<<Frame(Submap(<<>>, <<>>), <<sub>>, 1)>>, free_submaps(<<>>), 0)

\* src/submap.c get_ordering_matrix run through all its rows.
get_ordering_matrix(submaps) ==
  [size |-> Len(submaps),
   entries |-> [i \in 1..Len(submaps) |-> OrderingRow(submaps, i - 1)]]

\* Lines 324-329 of calculate on the snapshot (cnt, es).
FreshRun(cnt, es) ==
  LET all == get_all_submaps(from_graph(cnt, es))
  IN get_chromatic_polynomial(cnt, all, get_ordering_matrix(all))

Worker ==
  \/ W_Loop
  \/ W_LockGraphChanged
  \/ W_Clear
  \/ W_LockNodes
  \/ W_Count
  \/ W_FromGraph
  \/ W_Handle
  \/ W_Matrix
  \/ W_Row
  \/ W_Publish

(***************************************************************************)
(* The editor: src/chrompoly.c main, one frame of the loop of lines        *)
(* 370-516 per input event.                                                *)
(***************************************************************************)
RemoveAt(s, k1) == SubSeq(s, 1, k1 - 1) \o SubSeq(s, k1 + 1, Len(s))

\* Lines 380-387: drop the deleted nodes whose animation has ended.  i is
\* the macro's size_t, so "selected_idx > i" compares as unsigned and is
\* true for every negative selected_idx.
RECURSIVE PurgeFrom(_, _, _)
PurgeFrom(ns, sel, i) ==
  IF i >= Len(ns) THEN [nodes |-> ns, selected_idx |-> sel]
  ELSE IF ns[i + 1].deleted /\ ns[i + 1].disappear_animation_timer <= 0
    THEN PurgeFrom(RemoveAt(ns, i + 1),
                   IF sel < 0 \/ sel > i THEN sel - 1 ELSE sel, i)
  ELSE PurgeFrom(ns, sel, i + 1)

Purge == PurgeFrom(nodes, selected_idx, 0)

\* draw_node_at_idx, lines 109-111, for every node (lines 492-500).
DrawNodes(ns) ==
  [k \in 1..Len(ns) |->
     IF ns[k].deleted /\ ns[k].disappear_animation_timer > 0
       THEN [ns[k] EXCEPT !.disappear_animation_timer = @ - 1]
       ELSE ns[k]]

\* Lines 506-509: the progress text overwrites output.
DrawOutput ==
  IF cur_submap_count > 0 /\ cur_matrix_rows_count = 0
    THEN set_output_to_cur_submap_count
  ELSE IF cur_matrix_rows_count > 0
    THEN set_output_to_cur_matrix_rows_count
  ELSE output

\* get_node_idx_at_coords: what a click can hit, -1 or a node not deleted.
Targets(ns) == {-1} \cup {k - 1 : k \in {m \in 1..Len(ns) : ~ns[m].deleted}}

\* add_edge, lines 118-131.
add_edge(es, start_idx, end_idx) ==
  IF Len(es) = 0 THEN <<Edge(start_idx, end_idx)>>
  ELSE IF \E k \in 1..Len(es) :
            \/ es[k].start_idx = start_idx /\ es[k].end_idx = end_idx
            \/ es[k].start_idx = end_idx /\ es[k].end_idx = start_idx
    THEN es
  ELSE Append(es, Edge(start_idx, end_idx))

\* Lines 400-409: the first edge to or from the node being deleted
\* (1-based position), 0 when there is none left.
FirstIncident(es, sel) ==
  IF \E k \in 1..Len(es) : es[k].start_idx = sel \/ es[k].end_idx = sel
    THEN CHOOSE k \in 1..Len(es) :
           /\ es[k].start_idx = sel \/ es[k].end_idx = sel
           /\ \A m \in 1..(k - 1) : es[m].start_idx # sel /\ es[m].end_idx # sel
    ELSE 0

\* Lines 410-415: indices above the deleted node move down by one.
Renumber(es, sel) ==
  [k \in 1..Len(es) |->
     Edge(IF es[k].start_idx > sel THEN es[k].start_idx - 1
                                   ELSE es[k].start_idx,
          IF es[k].end_idx > sel THEN es[k].end_idx - 1
                                 ELSE es[k].end_idx)]

\* The graphs the editor has held while the worker is between counting n
\* and copying the edges.
TraceAfter(ns, es) ==
  IF pc_w = "from_graph"
    THEN graph_trace \cup {Graph(active_node_count(ns), es)}
    ELSE graph_trace

\* A frame that changes neither the node count nor the edges ends here:
\* selection sel, edging e, then the drawing of lines 478-515.
QuietFrame(ns, sel, e) ==
  /\ nodes' = DrawNodes(ns)
  /\ selected_idx' = sel
  /\ edging' = (e /\ sel >= 0)
  /\ output' = DrawOutput
  /\ UNCHANGED <<edges, pc_e, shared_vars, pc_w, n, submap, stack,
                 _all_submaps, stop_flag, cur_submap_count,
                 cur_matrix_rows_count, M, row, chromatic_polynomial,
                 history_vars>>

\* A frame with no input.
E_Idle ==
  /\ pc_e = "frame"
  /\ QuietFrame(Purge.nodes, Purge.selected_idx, edging)

\* Lines 389-392: KEY_Z deselects.
E_KeyZ ==
  /\ pc_e = "frame"
  /\ QuietFrame(Purge.nodes, -1, edging)

\* Lines 428-433: a left click on a node selects it.
E_Select ==
  /\ pc_e = "frame"
  /\ \E target \in Targets(Purge.nodes) \ {-1} :
       QuietFrame(Purge.nodes, target, edging)

\* Lines 456-458: a right press with a node selected starts an edge.
E_RightPress ==
  /\ pc_e = "frame"
  /\ Purge.selected_idx >= 0
  /\ QuietFrame(Purge.nodes, Purge.selected_idx, TRUE)

\* Lines 467-476: a right release that ends on no node, or on the selected
\* one, cancels the edge.
E_CancelEdge ==
  /\ pc_e = "frame"
  /\ edging /\ Purge.selected_idx >= 0
  /\ QuietFrame(Purge.nodes, Purge.selected_idx, FALSE)

\* The part of a mutating frame before it sets graph_changed leaves these.
MutationFrame ==
  UNCHANGED <<shared_vars, worker_vars, aborted, flag_sets,
              sets_since_cycle, coalesced,
              snapshot_consistent, published, rerun>>

\* Lines 434-442: a left click on no node adds one (array_add).
E_AddNode(cap) ==
  /\ pc_e = "frame"
  /\ flag_sets < cap
  /\ Len(Purge.nodes) < MaxNodes
  /\ nodes' = Append(Purge.nodes, Node(FALSE, 0))
  /\ selected_idx' = Len(nodes') - 1
  /\ pc_e' = "lock_graph_changed"
  /\ graph_trace' = TraceAfter(nodes', edges)
  /\ UNCHANGED <<edges, edging>>
  /\ MutationFrame

\* Lines 467-470: a right release on another node adds the edge
\* (selected_idx, end_idx).
E_AddEdge(cap) ==
  /\ pc_e = "frame"
  /\ flag_sets < cap
  /\ edging /\ Purge.selected_idx >= 0
  /\ \E end_idx \in Targets(Purge.nodes) \ {-1, Purge.selected_idx} :
       edges' = add_edge(edges, Purge.selected_idx, end_idx)
  /\ nodes' = Purge.nodes
  /\ selected_idx' = Purge.selected_idx
  /\ edging' = FALSE
  /\ pc_e' = "lock_graph_changed"
  /\ graph_trace' = TraceAfter(nodes', edges')
  /\ MutationFrame

\* Lines 395-398: KEY_X marks the selected node deleted.
E_KeyX(cap) ==
  /\ pc_e = "frame"
  /\ flag_sets < cap
  /\ Purge.selected_idx >= 0
  /\ nodes' = [Purge.nodes EXCEPT ![Purge.selected_idx + 1] =
                 Node(TRUE, AnimationFrames)]
  /\ selected_idx' = Purge.selected_idx
  /\ pc_e' = "delete_edges"
  /\ graph_trace' = TraceAfter(nodes', edges)
  /\ UNCHANGED <<edges, edging>>
  /\ MutationFrame

\* Line 403: mtx_lock(&nodes_mutex) before deleting the next edge of the
\* deleted node.
E_LockNodes ==
  /\ pc_e = "delete_edges"
  /\ FirstIncident(edges, selected_idx) # 0
  /\ nodes_mutex = "free"
  /\ nodes_mutex' = "main"
  /\ pc_e' = "delete_edge"
  /\ UNCHANGED <<nodes, edges, selected_idx, edging, graph_changed,
                 graph_changed_mutex, is_running, worker_vars, history_vars>>

\* Lines 404-406: array_del of that edge, unlock.
E_DeleteEdge ==
  /\ pc_e = "delete_edge"
  /\ edges' = RemoveAt(edges, FirstIncident(edges, selected_idx))
  /\ nodes_mutex' = "free"
  /\ pc_e' = "delete_edges"
  /\ graph_trace' = TraceAfter(nodes, edges')
  /\ UNCHANGED <<nodes, selected_idx, edging, graph_changed,
                 graph_changed_mutex, is_running, worker_vars, aborted,
                 flag_sets, sets_since_cycle, coalesced, snapshot_consistent,
                 published, rerun>>

\* Lines 410-419: no edge of the deleted node is left; renumber the edges
\* and deselect.
E_Renumber ==
  /\ pc_e = "delete_edges"
  /\ FirstIncident(edges, selected_idx) = 0
  /\ edges' = Renumber(edges, selected_idx)
  /\ selected_idx' = -1
  /\ edging' = FALSE
  /\ pc_e' = "lock_graph_changed"
  /\ graph_trace' = TraceAfter(nodes, edges')
  /\ UNCHANGED nodes
  /\ MutationFrame

\* The frame going on to the store without the mtx_lock.
E_SkipLockGraphChanged ==
  /\ pc_e = "lock_graph_changed"
  /\ pc_e' = "set"
  /\ UNCHANGED <<nodes, edges, selected_idx, edging, shared_vars,
                 worker_vars, history_vars>>

\* Lines 423, 443, 471: mtx_lock(&graph_changed_mutex).
E_LockGraphChanged ==
  /\ pc_e = "lock_graph_changed"
  /\ graph_changed_mutex = "free"
  /\ graph_changed_mutex' = "main"
  /\ pc_e' = "set"
  /\ UNCHANGED <<nodes, edges, selected_idx, edging, graph_changed,
                 nodes_mutex, is_running, worker_vars, history_vars>>

\* Lines 424-425, 444-445, 472-473: set the flag, unlock; then the rest of
\* the frame, which is the drawing.
E_Set ==
  /\ pc_e = "set"
  /\ graph_changed' = TRUE
  /\ graph_changed_mutex' = "free"
  /\ flag_sets' = flag_sets + 1
  /\ sets_since_cycle' = sets_since_cycle + 1
  /\ nodes' = DrawNodes(nodes)
  /\ output' = DrawOutput
  /\ pc_e' = "frame"
  /\ UNCHANGED <<edges, selected_idx, edging, nodes_mutex, is_running, pc_w,
                 n, submap, stack, _all_submaps, stop_flag, cur_submap_count,
                 cur_matrix_rows_count, M, row, chromatic_polynomial,
                 aborted, coalesced, graph_trace, snapshot_consistent,
                 published, rerun>>

\* Lines 370 and 518: the window is closed.
E_Close ==
  /\ pc_e = "frame"
  /\ is_running' = FALSE
  /\ pc_e' = "join"
  /\ UNCHANGED <<nodes, edges, selected_idx, edging, graph_changed,
                 graph_changed_mutex, nodes_mutex, worker_vars, history_vars>>

\* Lines 519-527: thrd_join returns once calculate has returned.
E_Join ==
  /\ pc_e = "join"
  /\ pc_w = "returned"
  /\ pc_e' = "closed"
  /\ UNCHANGED <<nodes, edges, selected_idx, edging, shared_vars,
                 worker_vars, history_vars>>

Editor(cap) ==
  \/ E_Idle
  \/ E_KeyZ
  \/ E_Select
  \/ E_RightPress
  \/ E_CancelEdge
  \/ E_AddNode(cap)
  \/ E_AddEdge(cap)
  \/ E_KeyX(cap)
  \/ E_LockNodes
  \/ E_DeleteEdge
  \/ E_Renumber
  \/ E_LockGraphChanged
  \/ E_Set

(***************************************************************************)
(* Initial states.                                                         *)
(***************************************************************************)
\* The worker has run lines 296-301 and stands at the head of its loop.
InitWorker ==
  /\ pc_w = "loop"
  /\ n = 0
  /\ submap = Submap(<<>>, <<>>)
  /\ stack = <<>>
  /\ _all_submaps = <<>>
  /\ stop_flag = FALSE
  /\ cur_submap_count = 0
  /\ cur_matrix_rows_count = 0
  /\ M = UninitialisedMatrix
  /\ row = 0
  /\ chromatic_polynomial = <<>>
  /\ output = set_output_to_loading

InitHistory ==
  /\ aborted = FALSE
  /\ flag_sets = 0
  /\ sets_since_cycle = 0
  /\ coalesced = 0
  /\ graph_trace = {}
  /\ snapshot_consistent = TRUE
  /\ published = "none"
  /\ rerun = FALSE

\* The program after main has created the worker (lines 354-368).
Init ==
  /\ nodes = <<>>
  /\ edges = <<>>
  /\ selected_idx = -1
  /\ edging = FALSE
  /\ pc_e = "frame"
  /\ graph_changed = FALSE
  /\ graph_changed_mutex = "free"
  /\ nodes_mutex = "free"
  /\ is_running = TRUE
  /\ InitWorker
  /\ InitHistory

\* Edge lists of at most MaxEdges edges over the vertices 0..cnt-1, in any
\* order and orientation, that make a well-formed simple graph.
EdgeLists(cnt) ==
  LET Pairs == {Edge(a, b) : a, b \in 0..(cnt - 1)}
  IN {es \in UNION {[1..k -> Pairs] : k \in 0..MaxEdges} :
        WellFormed(cnt, es)}

\* The pipeline alone: calculate holds a well-formed graph of 1..MaxNodes
\* vertices, has counted n, and nothing changes the graph while it runs.
\* M is a matrix matrix_free accepts (size 0), as after matrix_init(0).
InitPipeline ==
  /\ \E cnt \in 1..MaxNodes :
       /\ nodes = [k \in 1..cnt |-> Node(FALSE, 0)]
       /\ n = cnt
       /\ edges \in EdgeLists(cnt)
       /\ graph_trace = {Graph(cnt, edges)}
  /\ selected_idx = -1
  /\ edging = FALSE
  /\ pc_e = "frame"
  /\ graph_changed = FALSE
  /\ graph_changed_mutex = "free"
  /\ nodes_mutex = "free"
  /\ is_running = TRUE
  /\ pc_w = "from_graph"
  /\ submap = Submap(<<>>, <<>>)
  /\ stack = <<>>
  /\ _all_submaps = <<>>
  /\ stop_flag = FALSE
  /\ cur_submap_count = 0
  /\ cur_matrix_rows_count = 0
  /\ M = matrix_init(0)
  /\ row = 0
  /\ chromatic_polynomial = <<>>
  /\ output = set_output_to_loading
  /\ aborted = FALSE
  /\ flag_sets = 0
  /\ sets_since_cycle = 0
  /\ coalesced = 0
  /\ snapshot_consistent = TRUE
  /\ published = "none"
  /\ rerun = FALSE

Pipeline ==
  \/ W_FromGraph
  \/ W_Handle
  \/ W_Matrix
  \/ W_Row
  \/ W_Publish

SpecPipeline == InitPipeline /\ [][Pipeline]_vars

(***************************************************************************)
(* The pipeline when an allocation fails.                                  *)
(***************************************************************************)
\* array_add (src/array.h lines 86-97) calls realloc when cap == size: for
\* an array grown from empty, at the sizes 0, 8, 16, ...
Reallocates(size) == size \in {0, 8, 16, 32, 64}

\* One call of _handle during which the realloc of one
\* array_add(&_all_submaps, ...) (line 155) returns NULL: array_add sets
\* oom and adds nothing, _handle does not read oom and goes on; the adds
\* after it are as usual.  k is where the lost submap would have been.
W_HandleOom ==
  /\ pc_w = "_handle"
  /\ LET r == HandleCall(stack, _all_submaps, cur_submap_count,
                         graph_changed, stop_flag)
     IN /\ \E k \in (Len(_all_submaps) + 1)..Len(r.all) :
             /\ Reallocates(k - 1)
             /\ _all_submaps' = RemoveAt(r.all, k)
        /\ aborted' = (aborted \/ r.polled)
        /\ IF HandleDone(r.stack)
             THEN /\ stack' = <<>>
                  /\ stop_flag' = FALSE
                  /\ cur_submap_count' = 0
                  /\ pc_w' = "matrix"
             ELSE /\ stack' = r.stack
                  /\ stop_flag' = r.stop
                  /\ cur_submap_count' = r.count
                  /\ pc_w' = "_handle"
  /\ UNCHANGED <<editor_vars, shared_vars, n, submap, cur_matrix_rows_count,
                 M, row, chromatic_polynomial, output, flag_sets,
                 sets_since_cycle, coalesced, graph_trace,
                 snapshot_consistent, published, rerun>>

\* matrix_init (src/matrix.c lines 17-20) when a malloc returns NULL: the
\* result is not tested, the next store goes through the null pointer
\* (entries[i] = ... at line 19, or M.entries[i][j] = ... in
\* get_ordering_matrix) and the thread faults.
W_MatrixOom ==
  /\ pc_w = "matrix"
  /\ Len(_all_submaps) > 0
  /\ pc_w' = "crashed"
  /\ UNCHANGED <<editor_vars, shared_vars, n, submap, stack, _all_submaps,
                 stop_flag, cur_submap_count, cur_matrix_rows_count, M, row,
                 chromatic_polynomial, output, history_vars>>

PipelineOom == Pipeline \/ W_HandleOom \/ W_MatrixOom

SpecOom == InitPipeline /\ [][PipelineOom]_vars

(***************************************************************************)
(* Contraction sequences alone: get_direct_submaps applied again and again *)
(* to a graph two vertices and one edge larger than the pipeline's, and    *)
(* the unique add of _handle (lines 143-155) applied to what they reach.   *)
(* The edges are in any order, each drawn from its lower to its higher     *)
(* vertex.                                                                 *)
(***************************************************************************)
ContractMaxNodes == MaxNodes + 2

ContractMaxEdges == MaxEdges + 1

InitContract ==
  /\ nodes = [k \in 1..ContractMaxNodes |-> Node(FALSE, 0)]
  /\ n = ContractMaxNodes
  /\ edges \in {es \in UNION {[1..k -> {e \in {Edge(a, b) :
                                            a, b \in 0..(ContractMaxNodes - 1)} :
                                          e.start_idx < e.end_idx}] :
                                k \in 0..ContractMaxEdges} :
                  WellFormed(ContractMaxNodes, es)}
  /\ graph_trace = {Graph(ContractMaxNodes, edges)}
  /\ selected_idx = -1
  /\ edging = FALSE
  /\ pc_e = "frame"
  /\ graph_changed = FALSE
  /\ graph_changed_mutex = "free"
  /\ nodes_mutex = "free"
  /\ is_running = TRUE
  /\ pc_w = "contract"
  /\ submap = from_graph(ContractMaxNodes, edges)
  /\ stack = <<>>
  /\ _all_submaps = <<>>
  /\ stop_flag = FALSE
  /\ cur_submap_count = 0
  /\ cur_matrix_rows_count = 0
  /\ M = matrix_init(0)
  /\ row = 0
  /\ chromatic_polynomial = <<>>
  /\ output = set_output_to_loading
  /\ aborted = FALSE
  /\ flag_sets = 0
  /\ sets_since_cycle = 0
  /\ coalesced = 0
  /\ snapshot_consistent = TRUE
  /\ published = "none"
  /\ rerun = FALSE

\* One more step of a contraction sequence: submap becomes one of its
\* direct submaps.
C_Contract ==
  /\ pc_w = "contract"
  /\ \E e \in 1..Len(submap.edges) :
       submap' = get_direct_submaps(submap)[e]
  /\ UNCHANGED <<editor_vars, shared_vars, pc_w, n, stack, _all_submaps,
                 stop_flag, cur_submap_count, cur_matrix_rows_count, M, row,
                 chromatic_polynomial, output, history_vars>>

\* Lines 143-146 and 155: the submap reached is added unless the list holds
\* an equal one; a second contraction sequence then starts from the graph.
C_Add ==
  /\ pc_w = "contract"
  /\ ~in_submap_array(_all_submaps, submap)
  /\ _all_submaps' = Append(_all_submaps, submap)
  /\ IF Len(_all_submaps) = 0
       THEN submap' = from_graph(n, edges) /\ pc_w' = "contract"
       ELSE submap' = submap /\ pc_w' = "added"
  /\ UNCHANGED <<editor_vars, shared_vars, n, stack, stop_flag,
                 cur_submap_count, cur_matrix_rows_count, M, row,
                 chromatic_polynomial, output, history_vars>>

Contract == C_Contract \/ C_Add

SpecContract == InitContract /\ [][Contract]_vars

\* One contraction sequence on a graph one vertex larger than the
\* pipeline's, with at most MaxEdges edges in any order and each in either
\* direction.
InitDirect ==
  /\ nodes = [k \in 1..(ContractMaxNodes - 1) |-> Node(FALSE, 0)]
  /\ n = ContractMaxNodes - 1
  /\ edges \in {es \in UNION {[1..k -> {Edge(a, b) :
                                          a, b \in 0..(ContractMaxNodes - 2)}] :
                                k \in 0..MaxEdges} :
                  WellFormed(ContractMaxNodes - 1, es)}
  /\ graph_trace = {Graph(ContractMaxNodes - 1, edges)}
  /\ selected_idx = -1
  /\ edging = FALSE
  /\ pc_e = "frame"
  /\ graph_changed = FALSE
  /\ graph_changed_mutex = "free"
  /\ nodes_mutex = "free"
  /\ is_running = TRUE
  /\ pc_w = "contract"
  /\ submap = from_graph(ContractMaxNodes - 1, edges)
  /\ stack = <<>>
  /\ _all_submaps = <<>>
  /\ stop_flag = FALSE
  /\ cur_submap_count = 0
  /\ cur_matrix_rows_count = 0
  /\ M = matrix_init(0)
  /\ row = 0
  /\ chromatic_polynomial = <<>>
  /\ output = set_output_to_loading
  /\ aborted = FALSE
  /\ flag_sets = 0
  /\ sets_since_cycle = 0
  /\ coalesced = 0
  /\ snapshot_consistent = TRUE
  /\ published = "none"
  /\ rerun = FALSE

SpecDirect == InitDirect /\ [][C_Contract]_vars

(***************************************************************************)
(* Reference notions the properties compare the program with.              *)
(***************************************************************************)
\* Number of proper colourings of the graph (cnt, es) with q colours.
ProperColourings(cnt, es, q) ==
  Cardinality({f \in [0..(cnt - 1) -> 1..q] :
                 \A k \in 1..Len(es) : f[es[k].start_idx] # f[es[k].end_idx]})

RECURSIVE Power(_, _)
Power(q, k) == IF k = 0 THEN 1 ELSE q * Power(q, k - 1)

RECURSIVE EvalFrom(_, _, _)
\* Sum over k >= k1 of c[k] * q^(k+1), c 0-based, k1 the 1-based position.
EvalFrom(c, q, k1) ==
  IF k1 > Len(c) THEN 0 ELSE c[k1] * Power(q, k1) + EvalFrom(c, q, k1 + 1)

Evaluate(c, q) == EvalFrom(c, q, 1)

\* The worker has just published the result of an uncancelled cycle.
PublishedUncancelled ==
  pc_w = "loop" /\ ~aborted /\ output.kind = "polynomial"

(***************************************************************************)
(* Specifications.                                                         *)
(***************************************************************************)
\* The editor and the worker, interleaved, while the window stays open.
Next == Editor(MaxEdits) \/ Worker

Spec == Init /\ [][Next]_vars

\* The same under the scheduling of two running threads: neither the
\* worker nor the frame loop is starved.
FairSpec == Spec /\ WF_vars(Worker) /\ WF_vars(Editor(MaxEdits))

\* The same with the window closed at some frame (lines 370, 518-527).
\* is_running is a plain bool written by main (line 518) and read by the
\* worker (line 303) with no lock: the two reads of lines 303 and 304 are
\* separate steps here, so that the store may fall between them.

\* Line 303: the loop condition reads is_running.
W_While ==
  /\ pc_w = "loop"
  /\ pc_w' = IF is_running THEN "if_changed" ELSE "returned"
  /\ UNCHANGED <<editor_vars, shared_vars, n, submap, stack, _all_submaps,
                 stop_flag, cur_submap_count, cur_matrix_rows_count, M, row,
                 chromatic_polynomial, output, history_vars>>

\* Lines 304-309: continue while graph_changed is false, otherwise start
\* a cycle by emptying the published polynomial.
W_IfChanged ==
  /\ pc_w = "if_changed"
  /\ IF ~graph_changed
       THEN /\ pc_w' = "loop"
            /\ UNCHANGED <<chromatic_polynomial, sets_since_cycle, coalesced,
                           published, rerun>>
       ELSE /\ chromatic_polynomial' = <<>>
            /\ coalesced' = sets_since_cycle
            /\ sets_since_cycle' = 0
            /\ published' = IF published = "kept" THEN "lost" ELSE published
            /\ rerun' = FALSE
            /\ pc_w' = "lock_graph_changed"
  /\ UNCHANGED <<editor_vars, shared_vars, n, submap, stack, _all_submaps,
                 stop_flag, cur_submap_count, cur_matrix_rows_count, M, row,
                 output, aborted, flag_sets, graph_trace,
                 snapshot_consistent>>

\* Lines 303-305 in a build that keeps the two flags in registers: the
\* path through "continue" has no synchronisation, so the loads may be
\* moved out of the loop, and the worker that found is_running true and
\* graph_changed false spins without ever reading memory again.
W_Hoisted ==
  /\ pc_w = "if_changed"
  /\ ~graph_changed
  /\ pc_w' = "spin"
  /\ UNCHANGED <<editor_vars, shared_vars, n, submap, stack, _all_submaps,
                 stop_flag, cur_submap_count, cur_matrix_rows_count, M, row,
                 chromatic_polynomial, output, history_vars>>

WorkerShutdown ==
  \/ W_While
  \/ W_IfChanged
  \/ W_Hoisted
  \/ W_LockGraphChanged
  \/ W_Clear
  \/ W_LockNodes
  \/ W_Count
  \/ W_FromGraph
  \/ W_Handle
  \/ W_Matrix
  \/ W_Row
  \/ W_Publish

EditorShutdown == Editor(MaxEdits) \/ E_Close \/ E_Join

NextShutdown == EditorShutdown \/ WorkerShutdown

SpecShutdown == Init /\ [][NextShutdown]_vars

FairShutdown ==
  SpecShutdown /\ WF_vars(WorkerShutdown) /\ WF_vars(EditorShutdown)

\* The editor alone (the worker never scheduled).
NextEditor == Editor(MaxEditsAlone)

SpecEditor == Init /\ [][NextEditor]_vars

(***************************************************************************)
(* Properties of the pipeline (SpecPipeline).                              *)
(***************************************************************************)
Triangle(es) ==
  /\ Len(es) = 3
  /\ {{es[k].start_idx, es[k].end_idx} : k \in 1..3} = {{0, 1}, {0, 2}, {1, 2}}

\* C1: for every well-formed simple graph on n >= 1 vertices, the array c
\* an uncancelled run of from_graph, get_all_submaps, get_ordering_matrix,
\* get_chromatic_polynomial returns has length n, and the sum of
\* c[k] * q^(k+1) is the number of proper q-colourings for every q up to
\* MaxColours (more points than the degree); the triangle gives
\* [2, -3, 1], one edge on two vertices gives [-1, 1].
C1_CountsColourings ==
  PublishedUncancelled =>
    /\ Len(chromatic_polynomial) = n
    /\ \A q \in 0..MaxColours :
         Evaluate(chromatic_polynomial, q)
           = ProperColourings(n, submap.edges, q)
    /\ (n = 3 /\ Triangle(submap.edges))
         => chromatic_polynomial = <<2, -3, 1>>
    /\ (n = 2 /\ Len(submap.edges) = 1)
         => chromatic_polynomial = <<-1, 1>>

C1_Witness ==
  /\ PublishedUncancelled
  /\ n = 3
  /\ Triangle(submap.edges)
  /\ chromatic_polynomial = <<2, -3, 1>>

\* C6: the graph with n >= 1 vertices and no edge yields exactly one
\* submap, the n singleton blocks, and the coefficients c[n-1] = 1 and
\* c[k] = 0 for k < n-1.
C6_Edgeless ==
  (PublishedUncancelled /\ submap.edges = <<>>) =>
    /\ _all_submaps = <<Submap([i \in 1..n |-> <<i - 1>>], <<>>)>>
    /\ chromatic_polynomial = [k \in 1..n |-> IF k = n THEN 1 ELSE 0]

C6_Witness ==
  /\ PublishedUncancelled
  /\ submap.edges = <<>>
  /\ n = MaxNodes
  /\ Len(_all_submaps) = 1
  /\ chromatic_polynomial[n] = 1

\* C7: after an uncancelled cycle on a well-formed simple graph the
\* leading coefficient c[n-1] is 1: the all-singleton submap is the only
\* submap with n blocks (it is the last of the list) and its Moebius value
\* is 1.
C7_LeadingCoefficient ==
  PublishedUncancelled =>
    LET last == Len(_all_submaps)
    IN /\ chromatic_polynomial[n] = 1
       /\ {k \in 1..last : Len(_all_submaps[k].vertices) = n} = {last}
       /\ get_mobius_of_column(M)[last] = 1

C7_Witness ==
  /\ PublishedUncancelled
  /\ Len(submap.edges) >= 2
  /\ Len(_all_submaps) >= 3
  /\ chromatic_polynomial[n] = 1
  /\ \E k \in 1..(n - 1) : chromatic_polynomial[k] # 0

(***************************************************************************)
(* Properties of the editor and the worker together (Spec, FairSpec).      *)
(***************************************************************************)
\* C2: once the editor has stopped mutating and the final graph has
\* n >= 1 vertices, the worker eventually has published the chromatic
\* polynomial of that graph and the published value stays: from some point
\* on, chromatic_polynomial is the polynomial of the graph the editor
\* holds.
C2_EventuallyCorrect ==
  <>[]((is_running /\ active_node_count(nodes) >= 1
          /\ WellFormed(active_node_count(nodes), edges))
        => chromatic_polynomial
             = FreshRun(active_node_count(nodes), edges))

\* C3: while the last pipeline run is a cancelled one, the result an
\* earlier uncancelled cycle published is still in chromatic_polynomial and
\* output: the worker has not written either since.
C3_AbortKeepsResult == aborted => published # "lost"

\* C4: once a poll of a cycle has read the signal as set, the worker's next
\* step is back at the head of its loop, with no write to
\* chromatic_polynomial or output.
C4_AbortSkipsAndKeeps ==
  [][(aborted /\ pc_w \in {"_handle", "matrix", "row", "publish"}
        /\ pc_w' # pc_w)
       => (pc_w' = "loop" /\ UNCHANGED <<chromatic_polynomial, output>>)]_vars

\* C5: an uncancelled run on a well-formed snapshot (n, edge list)
\* publishes what the pipeline gives on that snapshot from freshly
\* initialised globals, whatever earlier cycles (completed or cancelled at
\* any poll) left in _all_submaps, stop_flag, cur_submap_count,
\* cur_matrix_rows_count and M; so two runs on one snapshot give the same
\* array.
C5_SameSnapshotSameResult ==
  (PublishedUncancelled /\ WellFormed(n, submap.edges))
    => chromatic_polynomial = FreshRun(n, submap.edges)

C5_Witness ==
  /\ PublishedUncancelled
  /\ rerun
  /\ WellFormed(n, submap.edges)
  /\ chromatic_polynomial = FreshRun(n, submap.edges)

\* C8: every cycle the worker starts takes up at least one setting of
\* graph_changed that no earlier cycle start took up, and takes up all
\* k >= 1 of them at once; hence no more cycles start than the flag was
\* set.
C8_OneCyclePerBatch ==
  /\ pc_w \in {"lock_graph_changed", "clear"} => coalesced >= 1
  /\ (pc_w = "loop" /\ is_running /\ graph_changed) => sets_since_cycle >= 1
  /\ sets_since_cycle <= flag_sets

C8_Witness ==
  /\ pc_w = "clear"
  /\ coalesced >= 2
  /\ sets_since_cycle = 0

\* C9: the (n, edge list) a cycle computes on is the graph the editor held
\* at one instant between the worker's count of the nodes and its copy of
\* the edges.
C9_SnapshotConsistent == snapshot_consistent

(***************************************************************************)
(* Properties of the editor (SpecEditor).                                  *)
(***************************************************************************)
\* C10: after any sequence of editor operations the graph handed to the
\* core (the active node count and the edge list, between two frames) has
\* every endpoint in 0..n-1, no edge with equal endpoints and no two edges
\* that are the same unordered pair.
C10_GraphWellFormed ==
  pc_e = "frame" => WellFormed(active_node_count(nodes), edges)

(***************************************************************************)
(* Properties of the pipeline under allocation failure (SpecOom).          *)
(***************************************************************************)
\* C11: when an allocation fails while the submap set is built or the
\* order matrix is allocated, no wrong or truncated polynomial is
\* published: the worker does not die, and whatever a cycle publishes is
\* the polynomial of its snapshot.
C11_NoWrongPolynomial ==
  /\ pc_w # "crashed"
  /\ PublishedUncancelled
       => chromatic_polynomial = FreshRun(n, submap.edges)

(***************************************************************************)
(* Properties of the shutdown (FairShutdown).                              *)
(***************************************************************************)
NoCycleAfterShutdown ==
  [][~is_running => ~(pc_w # "lock_graph_changed"
                        /\ pc_w' = "lock_graph_changed")]_vars

JoinCompletes == [](~is_running => <>(pc_e = "closed"))

\* C12: once main has set is_running to false the worker starts no new
\* cycle, even with graph_changed true, and under fair scheduling it
\* returns from calculate, so that thrd_join completes, whether the worker
\* was idle or in the middle of a cycle.
C12_ShutdownReturns == NoCycleAfterShutdown /\ JoinCompletes

(***************************************************************************)
(* Properties of the submap list (SpecPipeline).                           *)
(***************************************************************************)
\* The partition a submap stands for: its blocks as sets of labels.
BlockSet(v) == {v[x] : x \in 1..Len(v)}

PartitionOf(s) == {BlockSet(s.vertices[k]) : k \in 1..Len(s.vertices)}

BlockOf(P, v) == CHOOSE b \in P : v \in b

\* The partitions one edge contraction away from P in the graph es.
Contractions(P, es) ==
  {(P \ {BlockOf(P, es[k].start_idx), BlockOf(P, es[k].end_idx)})
     \cup {BlockOf(P, es[k].start_idx) \cup BlockOf(P, es[k].end_idx)} :
   k \in {l \in 1..Len(es) :
            BlockOf(P, es[l].start_idx) # BlockOf(P, es[l].end_idx)}}

RECURSIVE ContractionClosure(_, _)
ContractionClosure(S, es) ==
  LET next == S \cup UNION {Contractions(P, es) : P \in S}
  IN IF next = S THEN S ELSE ContractionClosure(next, es)

\* The partitions reachable from the all-singletons partition of 0..cnt-1.
ReachablePartitions(cnt, es) ==
  ContractionClosure({{{v} : v \in 0..(cnt - 1)}}, es)

\* get_all_submaps has returned without an abort and the list is in use.
AllSubmapsBuilt == pc_w \in {"matrix", "row", "publish", "loop"} /\ ~aborted

\* C13: after an uncancelled get_all_submaps on a well-formed graph the
\* partitions of the returned submaps are exactly the partitions reachable
\* from the all-singletons partition by contracting edges, and no two
\* returned submaps are equal under submap_eq.
C13_AllContractions ==
  AllSubmapsBuilt =>
    /\ {PartitionOf(_all_submaps[k]) : k \in 1..Len(_all_submaps)}
         = ReachablePartitions(n, submap.edges)
    /\ \A k, l \in 1..Len(_all_submaps) :
         k # l => ~submap_eq(_all_submaps[k], _all_submaps[l])

C13_Witness ==
  /\ AllSubmapsBuilt
  /\ Triangle(submap.edges)
  /\ Cardinality(ReachablePartitions(n, submap.edges)) = 5

\* C15: in the list of an uncancelled get_all_submaps every direct
\* submap of every entry is at a strictly smaller index than the entry,
\* and the original graph is the last entry (index m - 1).
C15_ChildrenFirst ==
  AllSubmapsBuilt =>
    /\ \A k \in 1..Len(_all_submaps) :
         \A e \in 1..Len(_all_submaps[k].edges) :
           \E l \in 1..(k - 1) :
             submap_eq(_all_submaps[l],
                       get_direct_submaps(_all_submaps[k])[e])
    /\ Len(_all_submaps) >= 1
    /\ submap_eq(_all_submaps[Len(_all_submaps)], from_graph(n, edges))

C15_Witness ==
  /\ AllSubmapsBuilt
  /\ Len(edges) = 2
  /\ Len(_all_submaps) = 4

(***************************************************************************)
(* Properties of the order matrix (SpecPipeline).                          *)
(***************************************************************************)
\* B coarsens A: every block of A is contained in exactly one block of B.
Coarsens(B, A) ==
  \A a \in PartitionOf(A) :
    Cardinality({b \in PartitionOf(B) : a \subseteq b}) = 1

\* get_ordering_matrix has returned without an abort.
MatrixBuilt == pc_w \in {"publish", "loop"} /\ ~aborted

\* C16 as stated: after an uncancelled get_ordering_matrix, for every
\* i <= j the entry matrix[i][j] is 1 if and only if submap j coarsens
\* submap i (every block of submap i lies within exactly one block of
\* submap j), and 0 otherwise.
C16_OneIffLaterCoarsens ==
  MatrixBuilt =>
    \A i, j \in 1..Len(_all_submaps) :
      i <= j => M.entries[i][j]
                  = IF Coarsens(_all_submaps[j], _all_submaps[i])
                      THEN 1 ELSE 0

\* C16 amended: after an uncancelled get_ordering_matrix, for every
\* i <= j the entry matrix[i][j] is 1 if and only if submap i coarsens
\* submap j (every block of submap j lies within exactly one block of
\* submap i), and 0 otherwise.
C16_OneIffEarlierCoarsens ==
  MatrixBuilt =>
    /\ M.size = Len(_all_submaps)
    /\ \A i, j \in 1..Len(_all_submaps) :
         i <= j => M.entries[i][j]
                     = IF Coarsens(_all_submaps[i], _all_submaps[j])
                         THEN 1 ELSE 0

C16_Witness ==
  /\ MatrixBuilt
  /\ \E i, j \in 1..Len(_all_submaps) :
       i < j /\ M.entries[i][j] = 1 /\ Len(_all_submaps[i].vertices) = 2
  /\ \E i, j \in 1..Len(_all_submaps) : i < j /\ M.entries[i][j] = 0

\* C17: after an uncancelled get_ordering_matrix the matrix is unit upper
\* triangular: matrix[i][i] = 1 for every i and matrix[i][j] = 0 for
\* every i > j.
C17_UnitUpperTriangular ==
  MatrixBuilt =>
    \A i, j \in 1..M.size :
      /\ i = j => M.entries[i][j] = 1
      /\ i > j => M.entries[i][j] = 0

C17_Witness ==
  /\ MatrixBuilt
  /\ M.size = 5
  /\ \E i, j \in 1..M.size : i < j /\ M.entries[i][j] = 1

\* The sum of f[x] over the x of S.
RECURSIVE SumOver(_, _)
SumOver(f, S) ==
  IF S = {} THEN 0
  ELSE LET x == CHOOSE y \in S : TRUE
       IN f[x] + SumOver(f, S \ {x})

\* C18: for a fully built order matrix of size m >= 1,
\* get_mobius_of_column returns mu with mu[m-1] = 1 and, for every other
\* s, mu[s] = -(sum of mu[t] over the t # s with matrix[s][t] = 1);
\* equivalently the sum over t of mu[t] * matrix[s][t] is 1 for s = m-1
\* and 0 for every other s.
C18_MobiusRecurrence ==
  (MatrixBuilt /\ M.size >= 1) =>
    LET mu == get_mobius_of_column(M)
        m == M.size
    IN /\ Len(mu) = m
       /\ mu[m] = 1
       /\ \A s \in 1..(m - 1) :
            mu[s] = 0 - SumOver(mu, {t \in 1..m :
                                      t # s /\ M.entries[s][t] = 1})
       /\ \A s \in 1..m :
            SumOver([t \in 1..m |-> mu[t] * M.entries[s][t]], 1..m)
              = IF s = m THEN 1 ELSE 0

C18_Witness ==
  /\ MatrixBuilt
  /\ M.size = 4
  /\ get_mobius_of_column(M) = <<1, -1, -1, 1>>

\* C19: in the order a fully built order matrix encodes over the submaps
\* of a well-formed graph, the last element (index m-1, the original
\* graph) is the unique maximum: matrix[i][m-1] = 1 for every i, and m-1
\* is the only index with no other index above it.
C19_LastIsMaximum ==
  (MatrixBuilt /\ M.size >= 1) =>
    /\ submap_eq(_all_submaps[M.size], from_graph(n, edges))
    /\ \A i \in 1..M.size : M.entries[i][M.size] = 1
    /\ \A i \in 1..M.size :
         (\A j \in 1..M.size : j # i => M.entries[i][j] # 1) <=> i = M.size

C19_Witness ==
  /\ MatrixBuilt
  /\ M.size = 5
  /\ \A i \in 1..M.size : M.entries[i][M.size] = 1

(***************************************************************************)
(* Properties of contraction sequences (SpecContract).                     *)
(***************************************************************************)
\* C14: two submaps built by different contraction sequences that stand
\* for the same partition have the same block sequence and the same edge
\* sequence, so submap_eq holds of them and the list never holds two
\* entries with the same partition.
C14_SamePartitionSameSubmap ==
  /\ \A k \in 1..Len(_all_submaps) :
       PartitionOf(_all_submaps[k]) = PartitionOf(submap)
         => /\ _all_submaps[k].vertices = submap.vertices
            /\ _all_submaps[k].edges = submap.edges
            /\ submap_eq(_all_submaps[k], submap)
  /\ \A k, l \in 1..Len(_all_submaps) :
       PartitionOf(_all_submaps[k]) = PartitionOf(_all_submaps[l]) => k = l

C14_Witness ==
  /\ pc_w = "contract"
  /\ Len(_all_submaps) = 1
  /\ PartitionOf(_all_submaps[1]) = PartitionOf(submap)
  /\ \E k \in 1..Len(submap.vertices) : Len(submap.vertices[k]) = 3
  /\ Len(submap.edges) = 2
  /\ ~edge_eq(submap.edges[1], submap.edges[2])

(***************************************************************************)
(* Properties of get_direct_submaps (SpecDirect).                          *)
(***************************************************************************)
\* v holds exactly the labels of S, in ascending order.
AscendingOf(v, S) ==
  /\ BlockSet(v) = S
  /\ \A x \in 1..(Len(v) - 1) : v[x] < v[x + 1]

\* C20: for a submap with e edges get_direct_submaps returns exactly e
\* children, one per edge (i, j) taken with i < j; each child has one block
\* fewer than its parent, its block at position i is the ascending sorted
\* union of the parent's blocks i and j, the parent's block j is removed,
\* and every other block is copied unchanged in the same relative order.
C20_DirectSubmaps ==
  LET children == get_direct_submaps(submap)
      blocks == Len(submap.vertices)
  IN /\ Len(children) = Len(submap.edges)
     /\ \A e \in 1..Len(submap.edges) :
          LET i == Min2(submap.edges[e].start_idx, submap.edges[e].end_idx)
              j == Max2(submap.edges[e].start_idx, submap.edges[e].end_idx)
              child == children[e].vertices
          IN /\ i < j
             /\ Len(child) = blocks - 1
             /\ AscendingOf(child[i + 1],
                            BlockSet(submap.vertices[i + 1])
                              \cup BlockSet(submap.vertices[j + 1]))
             /\ \A k \in 0..(j - 1) :
                  k # i => child[k + 1] = submap.vertices[k + 1]
             /\ \A k \in (j + 1)..(blocks - 1) :
                  child[k] = submap.vertices[k + 1]

C20_Witness ==
  /\ pc_w = "contract"
  /\ \E k \in 1..Len(edges) : edges[k] = Edge(2, 0)
  /\ submap.vertices = <<(<<0, 2>>), (<<1>>), (<<3>>)>>
  /\ Len(submap.edges) >= 2

(***************************************************************************)
(* Properties of the submaps the enumeration produces (SpecPipeline).      *)
(***************************************************************************)
\* C21: every submap the enumeration produces from a well-formed simple
\* graph has edges whose two indices are valid block positions and
\* distinct, and no two edges that are the same unordered pair.
C21_SubmapsSimple ==
  AllSubmapsBuilt =>
    \A k \in 1..Len(_all_submaps) :
      WellFormed(Len(_all_submaps[k].vertices), _all_submaps[k].edges)

(***************************************************************************)
(* Properties of the cancellation (Spec).                                  *)
(***************************************************************************)
\* A visit of _handle that reads the signal as set appends nothing.
AbortAppendsNothing ==
  [][(pc_w = "_handle" /\ (graph_changed \/ stop_flag))
       => _all_submaps' = _all_submaps]_vars

\* The list of an aborted enumeration never reaches get_ordering_matrix.
PartialListDiscarded == [](~(aborted /\ pc_w = "row"))

\* C22: the enumeration polls graph_changed at every submap it visits;
\* once a visit reads it as set no further submap is appended in that
\* enumeration, the ancestors on the recursion stack included, and the
\* caller discards the partial list instead of passing it to a later
\* pipeline step.
C22_AbortStopsEnumeration == AbortAppendsNothing /\ PartialListDiscarded

\* C23: get_ordering_matrix polls the cancellation once per row and
\* returns early on it, and the caller then discards the partial matrix:
\* get_mobius_of_column and get_chromatic_polynomial (which read the rows
\* 0 .. size-2 in full, lines 259-266) never read an entry that
\* get_ordering_matrix did not write in that cycle.
C23_NoUnwrittenEntryRead ==
  pc_w = "publish" =>
    \A j \in 1..(M.size - 1) :
      \A k \in 1..M.size : IsDet(M.entries[j][k])

(***************************************************************************)
(* Properties of the locking (Spec).                                       *)
(***************************************************************************)
\* The graph as the worker counts and copies it.
TopologyOf(ns, es) == Graph(active_node_count(ns), es)

\* C24: every mutation of the graph topology by the editor (node add, node
\* delete with the removal of its edges, edge add) is followed within the
\* same frame by the store graph_changed = true made while holding
\* graph_changed_mutex, and every write of graph_changed by either thread
\* is made while the writer holds graph_changed_mutex.
C24_MutationSetsFlagLocked ==
  [][/\ TopologyOf(nodes', edges') # TopologyOf(nodes, edges)
          => pc_e' # "frame"
     /\ (pc_e # "frame" /\ pc_e' = "frame")
          => graph_changed' /\ flag_sets' = flag_sets + 1
     /\ flag_sets' # flag_sets => graph_changed_mutex = "main"
     /\ graph_changed' # graph_changed
          => graph_changed_mutex
               = IF graph_changed' THEN "main" ELSE "worker"]_vars

C24_Witness ==
  /\ pc_e = "frame"
  /\ flag_sets = 3
  /\ graph_changed
  /\ Len(edges) = 1
  /\ Len(nodes) = 2
  /\ pc_w = "_handle"

\* C25: every read and every write of the graph (nodes and edges) by the
\* editor or by the worker is made while the accessing thread holds
\* nodes_mutex, so the worker never reads the graph while the editor is
\* part-way through a mutation.
C25_GraphAccessLocked ==
  [][/\ (nodes' # nodes \/ edges' # edges) => nodes_mutex = "main"
     /\ (pc_w = "from_graph" /\ pc_w' # "from_graph")
          => /\ nodes_mutex = "worker"
             /\ pc_e \notin {"delete_edges", "delete_edge"}]_vars

\* A thread is blocked when it is at an mtx_lock of a mutex that is held.
EditorBlocked ==
  \/ pc_e = "lock_graph_changed" /\ graph_changed_mutex # "free"
  \/ /\ pc_e = "delete_edges"
     /\ FirstIncident(edges, selected_idx) # 0
     /\ nodes_mutex # "free"

WorkerBlocked ==
  \/ pc_w = "lock_graph_changed" /\ graph_changed_mutex # "free"
  \/ pc_w = "lock_nodes" /\ nodes_mutex # "free"

\* C26: in every reachable state neither thread holds graph_changed_mutex
\* and nodes_mutex at the same time, and the two threads are never both
\* blocked waiting on a mutex.
C26_NoDeadlock ==
  /\ \A t \in {"main", "worker"} :
       ~(graph_changed_mutex = t /\ nodes_mutex = t)
  /\ ~(EditorBlocked /\ WorkerBlocked)

C26_Witness ==
  /\ EditorBlocked
  /\ graph_changed_mutex = "worker"
  /\ pc_w = "clear"

(***************************************************************************)
(* Properties of the blocks of a submap (SpecDirect).                      *)
(***************************************************************************)
\* C27: every submap reachable by get_direct_submaps from
\* from_graph(n, edges) of a well-formed graph has blocks that form a
\* partition of 0..n-1 (every label in exactly one block, no empty
\* block), each block ascending, and the blocks in strictly ascending
\* order of their minimum label.
C27_BlocksCanonical ==
  LET P == submap.vertices
      Min(S) == CHOOSE x \in S : \A y \in S : x <= y
  IN /\ \A k \in 1..Len(P) : Len(P[k]) >= 1
     /\ \A k \in 1..Len(P) : BlockSet(P[k]) \subseteq 0..(n - 1)
     /\ \A v \in 0..(n - 1) :
          Cardinality({k \in 1..Len(P) : v \in BlockSet(P[k])}) = 1
     /\ \A k \in 1..Len(P) :
          \A x \in 1..(Len(P[k]) - 1) : P[k][x] < P[k][x + 1]
     /\ \A k \in 1..(Len(P) - 1) :
          Min(BlockSet(P[k])) < Min(BlockSet(P[k + 1]))

C27_Witness ==
  /\ pc_w = "contract"
  /\ n = 4
  /\ submap.vertices = <<(<<0, 3>>), (<<1, 2>>)>>

(***************************************************************************)
(* Properties of the cycle on a graph without nodes (Spec).                *)
(***************************************************************************)
\* The worker counts no active node: it goes back to the loop head and
\* touches neither the list, the matrix, the polynomial nor the output.
EmptySnapshotSkipsPipeline ==
  [][(pc_w = "count" /\ pc_w' # "count" /\ active_node_count(nodes) = 0)
       => /\ pc_w' = "loop"
          /\ UNCHANGED <<_all_submaps, M, chromatic_polynomial, output>>]_vars

\* Until the next cycle starts nothing is published.
EmptySnapshotPublishesNothing ==
  [](n = 0 /\ pc_w = "loop"
       => chromatic_polynomial = <<>> /\ output = set_output_to_loading)

\* C28: when the worker's snapshot has no active node the cycle runs no
\* pipeline stage and publishes no polynomial: chromatic_polynomial stays
\* empty and output stays the loading text until a later graph change
\* starts a new cycle.
C28_EmptySnapshot ==
  EmptySnapshotSkipsPipeline /\ EmptySnapshotPublishesNothing

C28_Witness ==
  /\ n = 0
  /\ pc_w = "loop"
  /\ flag_sets >= 2
  /\ ~graph_changed
  /\ published = "none"

====
